---- MODULE Spec2Model ----
(***************************************************************************)
(* rstmdb-py: the connection engine (src/src/rstmdb/connection.py) and the *)
(* reconnection orchestrator (src/src/rstmdb/client.py) as a state         *)
(* machine.  One step of the model is one run of a coroutine between two   *)
(* suspension points of the asyncio event loop.                            *)
(*                                                                         *)
(* Processes: NumTasks callers of Client operations, one consumer of       *)
(* Client.events(), and the main flow that calls Client.connect() and      *)
(* later Client.close().  Every Connection object the Client creates has   *)
(* an index in Conns; Client._conn is `conn`.  The server and the network  *)
(* are the environment: they answer requests in any order, push events,    *)
(* send broken frames, and drop the connection.                            *)
(***************************************************************************)
EXTENDS Integers, Sequences, FiniteSets, TLC

NumTasks == 2      \* concurrent callers of Client operations
MaxConns == 2      \* Connection objects one Client creates
MaxRaceConns == 3  \* the same, where reconnects of two callers overlap
MaxInbox == 1      \* frames in flight from the server on one connection
MaxEvents == 2     \* events the server emits
MaxFaults == 2     \* faults injected: timeouts, drops, broken frames, refusals
MaxAttempt == 2    \* cap of the reconnect attempt counter
MaxGiveUp == 1     \* the nonzero max_reconnect_attempts tried
MaxBase == 2       \* reconnect_base_delay, in seconds
MaxTries == 3      \* max_reconnect_attempts of the backoff loop on its own
MaxBackoff == 1030 \* iterations of the backoff loop on its own
MaxPayload == 2    \* bytes of a frame's payload
MaxExt == 1        \* bytes of a frame's header extension
MaxExtra == 1      \* bytes that follow the frame on the wire
MaxRead == 2       \* bytes one read() returns

\* reconnect_max_delay of the examples, in seconds
MaxDelay == 30
\* A Python float is an IEEE double: an int converts to it below 2^1024 only,
\* float * int raises OverflowError otherwise.
FloatMaxExp == 1024

Tasks == 1..NumTasks
Consumer == NumTasks + 1
Main == NumTasks + 2
Procs == 1..(NumTasks + 2)
NoProc == NumTasks + 3
Conns == 1..MaxRaceConns
MaxId == 2 * NumTasks + MaxConns + 3
Ids == 1..MaxId

NoParams == "none"

\* errors.py: the ConnectionError raised at each place of the code
ConnErrs == {"NotConnected", "Timeout", "ConnLost", "ConnClosed", "GiveUp",
             "ConnectFailed", "HandshakeFailed"}
IsConnErr(e) == e \in ConnErrs

NoFut == [st |-> "none", id |-> 0, val |-> "none"]
Waiting == [st |-> "waiting", id |-> 0, val |-> "none"]
Cancelled == [st |-> "cancelled", id |-> 0, val |-> "none"]
Result(i, status) == [st |-> "result", id |-> i, val |-> status]
Exc(e) == [st |-> "exc", id |-> 0, val |-> e]
NoOp == [name |-> "none", params |-> NoParams]

\* Client.ping, Client.watch_all(filters), Client.unwatch(subscription_id)
Ping == [name |-> "PING", params |-> "ping"]
WatchAll == [name |-> "WATCH_ALL", params |-> "order"]
Unwatch == [name |-> "UNWATCH", params |-> "sub"]
\* Client.watch_instance(instance_id), and Client.unwatch with the id of the
\* subscription it created
WatchInstance == [name |-> "WATCH_INSTANCE", params |-> "inst"]
UnwatchInstance == [name |-> "UNWATCH", params |-> "inst_sub"]
\* Client.events, in the script of the consumer
Iterate == [name |-> "EVENTS", params |-> NoParams]

VARIABLES
  auto_reconnect, token, max_reconnect_attempts,   \* Client configuration
  reconnect_base_delay, reconnect_max_delay,
  conn_cap,                                        \* Connection objects explored
  conn, nconns, reconnect_attempt, watch_params,   \* Client state
  transport, peer, inbox,                          \* per connection: the socket
  connected, closed, request_id, pending, events, reader,  \* Connection fields
  srvReq, srvWatch, hs, nev, faults,                \* the server
  pc, stage, try, op, tconn, tid, fut, outcome, lastErr, script,  \* per process
  delay,
  frame, extra, flip, net, buffer, decoded, raised,  \* the frame codec
  wrote, watchSent, heldAt, delivered                   \* history

cfgVars == <<auto_reconnect, token, max_reconnect_attempts,
             reconnect_base_delay, reconnect_max_delay, conn_cap>>
progVars == <<conn, nconns, reconnect_attempt, watch_params, transport, peer,
              inbox, connected, closed, request_id, pending, events, reader,
              srvReq, srvWatch, hs, nev, faults, pc, stage, try, op, tconn, tid,
              fut, outcome, lastErr, script, delay, wrote, watchSent, heldAt,
              delivered>>
codecVars == <<frame, extra, flip, net, buffer, decoded, raised>>
vars == <<cfgVars, progVars, codecVars>>

\* The state as one record, so that the code's functions are operators on it.
St == [ok |-> TRUE,
       auto_reconnect |-> auto_reconnect, token |-> token,
       max_reconnect_attempts |-> max_reconnect_attempts,
       reconnect_base_delay |-> reconnect_base_delay,
       reconnect_max_delay |-> reconnect_max_delay,
       conn |-> conn, nconns |-> nconns, reconnect_attempt |-> reconnect_attempt,
       watch_params |-> watch_params, transport |-> transport, peer |-> peer,
       inbox |-> inbox, connected |-> connected, closed |-> closed,
       request_id |-> request_id, pending |-> pending, events |-> events,
       reader |-> reader, srvReq |-> srvReq, srvWatch |-> srvWatch, hs |-> hs,
       nev |-> nev, faults |-> faults, pc |-> pc, stage |-> stage, try |-> try,
       op |-> op, tconn |-> tconn, tid |-> tid, fut |-> fut,
       outcome |-> outcome, lastErr |-> lastErr, script |-> script,
       wrote |-> wrote, watchSent |-> watchSent, heldAt |-> heldAt,
       delay |-> delay, delivered |-> delivered]

\* The state after a step is S.
Apply(S) ==
  /\ S.ok
  /\ conn' = S.conn /\ nconns' = S.nconns
  /\ reconnect_attempt' = S.reconnect_attempt
  /\ watch_params' = S.watch_params /\ transport' = S.transport
  /\ peer' = S.peer /\ inbox' = S.inbox /\ connected' = S.connected
  /\ closed' = S.closed /\ request_id' = S.request_id
  /\ pending' = S.pending /\ events' = S.events /\ reader' = S.reader
  /\ srvReq' = S.srvReq /\ srvWatch' = S.srvWatch /\ hs' = S.hs
  /\ nev' = S.nev /\ faults' = S.faults /\ pc' = S.pc /\ stage' = S.stage
  /\ try' = S.try /\ op' = S.op /\ tconn' = S.tconn /\ tid' = S.tid
  /\ fut' = S.fut /\ outcome' = S.outcome /\ lastErr' = S.lastErr
  /\ script' = S.script /\ wrote' = S.wrote /\ watchSent' = S.watchSent
  /\ heldAt' = S.heldAt /\ delivered' = S.delivered /\ delay' = S.delay
  /\ UNCHANGED <<cfgVars, codecVars>>

\* A step of the whole Client, whose attempt counter and number of
\* Connection objects are capped.
Commit(S) ==
  S.reconnect_attempt <= MaxAttempt /\ S.nconns <= conn_cap /\ Apply(S)

\* One more injected fault.
Fault(S) == [S EXCEPT !.faults = @ + 1]

\* The state after Client.__init__ (and Connection.__init__ of every
\* Connection object).
Constructed ==
  /\ conn = 1 /\ nconns = 1 /\ reconnect_attempt = 0
  /\ watch_params = NoParams
  /\ transport = [c \in Conns |-> "none"]
  /\ peer = [c \in Conns |-> "none"]
  /\ inbox = [c \in Conns |-> <<>>]
  /\ connected = [c \in Conns |-> FALSE]
  /\ closed = [c \in Conns |-> FALSE]
  /\ request_id = [c \in Conns |-> 0]
  /\ pending = [c \in Conns |-> [i \in Ids |-> NoProc]]
  /\ events = [c \in Conns |-> <<>>]
  /\ reader = [c \in Conns |-> "none"]
  /\ srvReq = [c \in Conns |-> {}]
  /\ srvWatch = [c \in Conns |-> NoParams]
  /\ hs = [c \in Conns |-> [hello |-> "none", auth |-> "none"]]
  /\ nev = 0
  /\ pc = [p \in Procs |-> IF p = Main THEN "start"
                           ELSE IF p = Consumer THEN "ev_idle" ELSE "idle"]
  /\ stage = [p \in Procs |-> "none"]
  /\ try = [p \in Procs |-> 0]
  /\ op = [p \in Procs |-> NoOp]
  /\ tconn = [p \in Procs |-> 1]
  /\ tid = [p \in Procs |-> 0]
  /\ fut = [p \in Procs |-> NoFut]
  /\ outcome = [p \in Procs |-> "none"]
  /\ lastErr = [p \in Procs |-> "none"]
  /\ delay = [p \in Procs |-> 0]
  /\ buffer = <<>> /\ decoded = <<>> /\ raised = "none"
  /\ wrote = [p \in Procs |-> 0]
  /\ watchSent = [c \in Conns |-> NoParams]
  /\ heldAt = [c \in Conns |-> NoParams]
  /\ delivered = <<>>

\* What the application does with the Client: caller 1 issues the
\* operations of s1 one after the other, every other caller those of s2, and
\* the consumer iterates Client.events() or does not.
\* No bytes are looked at one by one: the frames are taken as decoded.
NoWire ==
  /\ frame = [payload |-> <<>>, use_crc |-> FALSE, header_extension |-> <<>>]
  /\ extra = <<>> /\ flip = 0 /\ net = <<>>

Scripts(s1, s2, ev) ==
  [p \in Procs |-> IF p = 1 THEN s1
                   ELSE IF p \in Tasks THEN s2
                   ELSE IF p = Consumer /\ ev THEN <<Iterate>> ELSE <<>>]

\* Client(auto_reconnect=False): concurrent callers of one operation each, or
\* one caller beside the consumer of events.
Init ==
  /\ auto_reconnect = FALSE
  /\ reconnect_base_delay = 1 /\ reconnect_max_delay = MaxDelay
  /\ max_reconnect_attempts = 0
  /\ faults = 0
  /\ conn_cap = MaxConns
  /\ Constructed
  /\ NoWire
  /\ \/ /\ token \in BOOLEAN
        /\ \E o \in {Ping, WatchAll} : script = Scripts(<<o>>, <<Ping>>, FALSE)
     \/ /\ token = FALSE
        /\ \E s \in {<<WatchAll>>, <<Unwatch>>, <<WatchAll, Ping>>} :
             script = Scripts(s, <<>>, TRUE)

\* Client(auto_reconnect=True): one caller, with or without the consumer of
\* events, with unlimited attempts or with MaxGiveUp of them.
InitR ==
  /\ auto_reconnect = TRUE
  /\ reconnect_base_delay = 1 /\ reconnect_max_delay = MaxDelay
  /\ faults = 0
  /\ conn_cap = MaxConns
  /\ Constructed
  /\ NoWire
  /\ \/ /\ token = FALSE /\ max_reconnect_attempts = 0
        /\ script = Scripts(<<WatchAll, Ping>>, <<>>, FALSE)
     \/ /\ token = FALSE /\ max_reconnect_attempts = 0
        /\ script = Scripts(<<WatchAll>>, <<>>, TRUE)
     \/ /\ token = TRUE /\ max_reconnect_attempts = MaxGiveUp
        /\ script = Scripts(<<Ping>>, <<>>, FALSE)

-----------------------------------------------------------------------------
(* Connection: properties and helpers                                      *)

\* Connection.is_connected
is_connected(S, c) ==
  S.connected[c] /\ ~S.closed[c] /\ S.transport[c] # "none"

\* The processes whose future is registered in Connection c's pending table.
Owners(S, c) == {S.pending[c][i] : i \in Ids} \ {NoProc}

\* A broadcast that reaches the oldest entry only and forgets the others.
fail_oldest(S, c, err) ==
  [S EXCEPT !.fut = [p \in Procs |->
                       IF /\ p \in Owners(S, c) /\ S.fut[p].st = "waiting"
                          /\ \A q \in Owners(S, c) : S.tid[p] <= S.tid[q]
                       THEN Exc(err) ELSE S.fut[p]],
            !.pending[c] = [i \in Ids |-> NoProc]]

\* Connection._fail_pending: fail every future that is not done, clear the table
fail_pending(S, c, err) ==
  [S EXCEPT !.fut = [p \in Procs |->
                       IF p \in Owners(S, c) /\ S.fut[p].st = "waiting"
                       THEN Exc(err) ELSE S.fut[p]],
            !.pending[c] = [i \in Ids |-> NoProc]]

\* StreamWriter.write + drain: fails once the transport was closed locally or
\* the peer reset the connection (drain raises the builtin ConnectionResetError)
WriteFails(S, c) == S.transport[c] = "closed" \/ S.peer[c] = "reset"

\* The frame reaches the server while the server's side is up.
Deliver(S, c, i, o) ==
  IF S.peer[c] = "up" THEN S.srvReq[c] \cup {<<i, o.name, o.params>>}
  ELSE S.srvReq[c]

-----------------------------------------------------------------------------
(* Client.events / Connection.events                                       *)

\* A queue whose get() returns the newest element.
EvTakeLast(S, p, c) ==
  LET S1 == [S EXCEPT !.stage[p] = "none", !.try[p] = 0, !.op[p] = NoOp,
                      !.tid[p] = 0, !.fut[p] = NoFut, !.lastErr[p] = "none",
                      !.wrote[p] = 0, !.tconn[p] = c]
      n == Len(S.events[c])
  IN IF S.events[c] # <<>>
     THEN [S1 EXCEPT !.events[c] = SubSeq(@, 1, n - 1),
                     !.delivered = Append(@, S.events[c][n]),
                     !.pc[p] = "ev_busy"]
     ELSE [S1 EXCEPT !.pc[p] = "ev_blocked"]

\* Connection.events: the queue's get() returns the head, or blocks when empty
EvTake(S, p, c) ==
  LET S1 == [S EXCEPT !.stage[p] = "none", !.try[p] = 0, !.op[p] = NoOp,
                      !.tid[p] = 0, !.fut[p] = NoFut, !.lastErr[p] = "none",
                      !.wrote[p] = 0, !.tconn[p] = c]
  IN IF S.events[c] # <<>>
     THEN [S1 EXCEPT !.events[c] = Tail(@),
                     !.delivered = Append(@, Head(S.events[c])),
                     !.pc[p] = "ev_busy"]
     ELSE [S1 EXCEPT !.pc[p] = "ev_blocked"]

\* The caller of a Client operation gets its result or exception.
ExitTask(S, p, res) ==
  [S EXCEPT !.pc[p] = "idle", !.outcome[p] = res, !.stage[p] = "none",
            !.try[p] = 0, !.op[p] = NoOp, !.tconn[p] = 1, !.tid[p] = 0,
            !.fut[p] = NoFut, !.lastErr[p] = "none"]

\* An exception leaves Client.events() to the consumer.
EvRaise(S, p, err) ==
  [S EXCEPT !.pc[p] = "ev_raised", !.outcome[p] = err, !.stage[p] = "none",
            !.try[p] = 0, !.op[p] = NoOp, !.tconn[p] = 1, !.tid[p] = 0,
            !.fut[p] = NoFut, !.lastErr[p] = "none", !.wrote[p] = 0]

\* Client.events after _reconnect_with_backoff gave up: the ConnectionError is
\* swallowed and the loop starts over on the current connection; when that one
\* is closed the next backoff gives up again at once, without any await.
EvAfterGiveUp(S, p) ==
  LET S1 == IF ~S.closed[S.conn] THEN EvTake(S, p, S.conn)
            ELSE IF ~S.auto_reconnect \/ S.watch_params = NoParams
                 THEN [S EXCEPT !.pc[p] = "ev_end"]
                 ELSE [S EXCEPT !.pc[p] = "ev_spin"]
  IN [S1 EXCEPT !.lastErr[p] = "GiveUp"]

Min(a, b) == IF a <= b THEN a ELSE b

\* min(base * 2 ** e, max_delay) for a float base of integral value and e
\* below FloatMaxExp: a power above max_delay gives max_delay, so the power is
\* computed up to max_delay + 1 only.
backoff_delay(base, max_delay, e) ==
  Min(base * Min(2 ^ Min(e, 30), max_delay + 1), max_delay)

\* An exception that is no ConnectionError leaves _reconnect_with_backoff.
Propagate(S, p, err) ==
  IF p = Consumer THEN EvRaise(S, p, err) ELSE ExitTask(S, p, err)

\* Client._reconnect_with_backoff, the head of one iteration: count the
\* attempt, give up when over the limit, else compute the delay and sleep.
reconnect_with_backoff(S, p, stg) ==
  LET a == S.reconnect_attempt + 1
      S1 == [S EXCEPT !.reconnect_attempt = a]
  IN IF S.max_reconnect_attempts > 0 /\ a > S.max_reconnect_attempts
     THEN IF p = Consumer THEN EvAfterGiveUp(S1, p)
          ELSE ExitTask(S1, p, "GiveUp")
     ELSE IF a - 1 >= FloatMaxExp THEN Propagate(S1, p, "OverflowError")
     ELSE [S1 EXCEPT !.pc[p] = "sleep", !.stage[p] = stg,
                     !.delay[p] = backoff_delay(S.reconnect_base_delay,
                                                S.reconnect_max_delay, a - 1)]

\* Client.events, one pass of the loop on Connection c: yield the next event,
\* or on a closed connection return or reconnect.
EvInner(S, p, c) ==
  IF ~S.closed[c] THEN EvTake(S, p, c)
  ELSE IF ~S.auto_reconnect \/ S.watch_params = NoParams
       THEN [S EXCEPT !.pc[p] = "ev_end"]
       ELSE reconnect_with_backoff(S, p, "events")

-----------------------------------------------------------------------------
(* Client._request and Connection.request                                  *)

\* A Client._request that reconnects and retries after a server error too.
RequestExitRetry(S, p, res) ==
  IF res = "ServerError" /\ S.auto_reconnect
  THEN reconnect_with_backoff(S, p, "retry")
  ELSE IF p = Consumer
       THEN IF res = "ok" \/ IsConnErr(res) THEN EvInner(S, p, S.conn)
            ELSE EvRaise(S, p, res)
       ELSE ExitTask(S, p, res)

\* Client._request returns or raises: to the caller, or inside Client.events
\* where a ConnectionError is swallowed and everything else is raised.
RequestExit(S, p, res) ==
  IF p = Consumer
  THEN IF res = "ok" \/ IsConnErr(res) THEN EvInner(S, p, S.conn)
       ELSE EvRaise(S, p, res)
  ELSE ExitTask(S, p, res)

\* An except clause that reconnects and retries after every ConnectionError.
ReqFailedAgain(S, p, k, err) ==
  IF IsConnErr(err) /\ S.auto_reconnect
  THEN reconnect_with_backoff([S EXCEPT !.lastErr[p] = err], p, "retry")
  ELSE RequestExit(S, p, err)

\* Client._request, the except clause: the first failure with a
\* ConnectionError reconnects and retries once, anything else propagates.
ReqFailed(S, p, k, err) ==
  IF k = 1 /\ IsConnErr(err) /\ S.auto_reconnect
  THEN reconnect_with_backoff([S EXCEPT !.lastErr[p] = err], p, "retry")
  ELSE RequestExit(S, p, err)

\* A request that takes the current value of the counter as its id.
request_reuse(S, p, c, k) ==
  IF S.transport[c] = "none" THEN ReqFailed(S, p, k, "NotConnected")
  ELSE LET i == IF S.request_id[c] = 0 THEN 1 ELSE S.request_id[c]
           S1 == [S EXCEPT !.request_id[c] = i, !.ok = S.ok /\ i <= MaxId]
       IN IF S.op[p].params = NoParams /\ S.op[p].name = "WATCH_ALL"
          THEN RequestExit(S1, p, "ValidationError")
          ELSE IF WriteFails(S, c) THEN ReqFailed(S1, p, k, "OSError")
          ELSE [S1 EXCEPT !.pending[c][i] = p, !.fut[p] = Waiting,
                          !.tid[p] = i, !.tconn[p] = c, !.try[p] = k,
                          !.pc[p] = "await", !.wrote[p] = @ + 1,
                          !.watchSent[c] = IF S.op[p].name = "WATCH_ALL"
                                           THEN S.op[p].params ELSE @,
                          !.srvReq[c] = Deliver(S, c, i, S.op[p])]

\* Connection.request up to its await: take the next id, register the future,
\* write the frame.
request(S, p, c, k) ==
  IF S.transport[c] = "none" THEN ReqFailed(S, p, k, "NotConnected")
  ELSE LET i == S.request_id[c] + 1
           S1 == [S EXCEPT !.request_id[c] = i, !.ok = S.ok /\ i <= MaxId]
       IN IF S.op[p].params = NoParams /\ S.op[p].name = "WATCH_ALL"
          THEN RequestExit(S1, p, "ValidationError")
          ELSE IF WriteFails(S, c) THEN ReqFailed(S1, p, k, "OSError")
          ELSE [S1 EXCEPT !.pending[c][i] = p, !.fut[p] = Waiting,
                          !.tid[p] = i, !.tconn[p] = c, !.try[p] = k,
                          !.pc[p] = "await", !.wrote[p] = @ + 1,
                          !.watchSent[c] = IF S.op[p].name = "WATCH_ALL"
                                           THEN S.op[p].params ELSE @,
                          !.srvReq[c] = Deliver(S, c, i, S.op[p])]

\* Client._request up to its first await: _ensure_connected, then the request
BeginRequest(S, p) ==
  LET S1 == [S EXCEPT !.wrote[p] = 0, !.lastErr[p] = "none", !.try[p] = 0]
  IN IF is_connected(S1, S1.conn) THEN request(S1, p, S1.conn, 1)
     ELSE IF ~S1.auto_reconnect THEN RequestExit(S1, p, "NotConnected")
     ELSE reconnect_with_backoff(S1, p, "pre")

-----------------------------------------------------------------------------
(* Connection.connect, Client.connect and Client.reconnect                 *)

\* Client.reconnect returned: the caller of _reconnect_with_backoff goes on.
AfterReconnect(S, p) ==
  LET S1 == [S EXCEPT !.reconnect_attempt = 0,
                      !.heldAt[S.tconn[p]] = S.watch_params]
  IN CASE S.stage[p] = "pre" -> request(S1, p, S1.conn, 1)
       [] S.stage[p] = "retry" -> request(S1, p, S1.conn, 2)
       [] OTHER ->
            BeginRequest([S1 EXCEPT !.op[p] = [name |-> "WATCH_ALL",
                                               params |-> S1.watch_params]], p)

\* Connection.connect, its last two lines: mark connected, start the reader
\* (whose loop ends at once on a connection that was closed meanwhile).
ConnectOk(S, p, c) ==
  LET S1 == [S EXCEPT !.connected[c] = TRUE,
                      !.reader[c] = IF S.closed[c] THEN "exited" ELSE "running"]
  IN IF p = Main THEN [S1 EXCEPT !.reconnect_attempt = 0, !.pc[p] = "up"]
     ELSE AfterReconnect(S1, p)

\* A failed connect that sets the attempt counter back to zero.
ConnectFailedReset(S, p, err) ==
  IF p = Main THEN [S EXCEPT !.pc[p] = "failed", !.outcome[p] = err]
  ELSE IF IsConnErr(err)
       THEN reconnect_with_backoff([S EXCEPT !.reconnect_attempt = 0], p,
                                   S.stage[p])
  ELSE Propagate(S, p, err)

\* Connection.connect raised.
ConnectFailed(S, p, err) ==
  IF p = Main THEN [S EXCEPT !.pc[p] = "failed", !.outcome[p] = err]
  ELSE IF IsConnErr(err) THEN reconnect_with_backoff(S, p, S.stage[p])
  ELSE Propagate(S, p, err)

\* Connection._request_raw up to its read: take the next id, write the frame.
request_raw(S, p, c, opname) ==
  LET i == S.request_id[c] + 1
      S1 == [S EXCEPT !.request_id[c] = i, !.ok = S.ok /\ i <= MaxId]
  IN IF WriteFails(S, c) THEN ConnectFailed(S1, p, "OSError")
     ELSE [S1 EXCEPT !.tid[p] = i,
                     !.srvReq[c] =
                        Deliver(S, c, i, [name |-> opname, params |-> NoParams]),
                     !.pc[p] = IF opname = "HELLO" THEN "hello" ELSE "auth"]

\* A handshake that goes on whatever the status of the HELLO response.
handshake_any(S, p, c, status) ==
  IF S.token THEN request_raw(S, p, c, "AUTH")
  ELSE ConnectOk(S, p, c)

\* Connection._handshake, after the response was read
handshake(S, p, c, status) ==
  IF status # "ok" THEN ConnectFailed(S, p, "HandshakeFailed")
  ELSE IF S.token THEN request_raw(S, p, c, "AUTH")
  ELSE ConnectOk(S, p, c)

\* An authentication that goes on whatever the status of the AUTH response.
authenticate_any(S, p, c, status) == ConnectOk(S, p, c)

\* Connection._authenticate, after the response was read
authenticate(S, p, c, status) ==
  IF status # "ok" THEN ConnectFailed(S, p, "ServerError")
  ELSE ConnectOk(S, p, c)

-----------------------------------------------------------------------------
(* Connection.close                                                        *)

\* A reconnect that forgets the subscription with the old Connection.
CloseFinishForget(S, p, c) ==
  LET S1 == fail_pending(S, c, "ConnClosed")
  IN IF p = Main THEN [S1 EXCEPT !.pc[p] = "closed"]
     ELSE [S1 EXCEPT !.ok = S.ok /\ S.nconns < MaxRaceConns,
                     !.nconns = @ + 1, !.conn = S.nconns + 1,
                     !.tconn[p] = S.nconns + 1, !.pc[p] = "open",
                     !.watch_params = NoParams]

\* Connection.close, its last line; then Client.reconnect builds the new
\* Connection and starts to connect it.
CloseFinish(S, p, c) ==
  LET S1 == fail_pending(S, c, "ConnClosed")
  IN IF p = Main THEN [S1 EXCEPT !.pc[p] = "closed"]
     ELSE [S1 EXCEPT !.ok = S.ok /\ S.nconns < MaxRaceConns,
                     !.nconns = @ + 1, !.conn = S.nconns + 1,
                     !.tconn[p] = S.nconns + 1, !.pc[p] = "open"]

\* Connection.close: close the writer and wait until it is closed.
CloseWriter(S, p, c) ==
  IF S.transport[c] = "open"
  THEN [S EXCEPT !.transport[c] = "closed", !.inbox[c] = <<>>,
                 !.tconn[p] = c, !.pc[p] = "close_wr"]
  ELSE CloseFinish(S, p, c)

\* Connection.close: set _closed, cancel the reader and await it.  Awaiting a
\* reader task that died of an exception raises that exception.
close(S, p, c) ==
  LET S1 == [S EXCEPT !.closed[c] = TRUE]
  IN CASE S.reader[c] = "running" ->
            [S1 EXCEPT !.reader[c] = "cancelled", !.tconn[p] = c,
                       !.pc[p] = "close_rd"]
       [] S.reader[c] = "crashed" ->
            IF p = Main
            THEN [S1 EXCEPT !.pc[p] = "close_raised",
                            !.outcome[p] = "InvalidStateError"]
            ELSE Propagate(S1, p, "InvalidStateError")
       [] OTHER -> CloseWriter(S1, p, c)

-----------------------------------------------------------------------------
(* Connection._read_loop                                                   *)

\* A reader that hands each response to the oldest pending entry.
LookupOldest(S, c, i) ==
  LET reg == {j \in Ids : S.pending[c][j] # NoProc}
  IN IF reg = {} THEN NoProc
     ELSE S.pending[c][CHOOSE j \in reg : \A k \in reg : j <= k]

\* _read_loop: the pending entry a response's id selects
Lookup(S, c, i) == S.pending[c][i]

\* A reader that looks the entry up without testing membership: a response
\* with an id that is not registered ends it with KeyError.
DispatchStrict(S, c, m) ==
  CASE m.type \in {"badframe", "badjson"} ->
         [fail_pending(S, c, "ProtocolError") EXCEPT !.reader[c] = "proto"]
    [] m.type \in {"response", "badresponse"} ->
         LET p == Lookup(S, c, m.id)
         IN IF p = NoProc THEN [S EXCEPT !.reader[c] = "crashed"]
            ELSE IF S.fut[p].st # "waiting"
                 THEN [S EXCEPT !.reader[c] = "crashed"]
                 ELSE [S EXCEPT !.fut[p] =
                          IF m.type = "response" THEN Result(m.id, m.status)
                          ELSE Exc("ProtocolError")]
    [] m.type = "badtop" -> [S EXCEPT !.reader[c] = "crashed"]
    [] m.type = "event" -> [S EXCEPT !.events[c] = Append(@, m.id)]
    [] OTHER -> S

\* _read_loop, one decoded frame: a response resolves the entry with its id
\* (set_result / set_exception raise InvalidStateError on a future that is
\* done), an event goes to the queue, a frame that is no frame or no JSON
\* fails everything pending and ends the loop, JSON that is no object has no
\* get() and ends the loop with AttributeError.
Dispatch(S, c, m) ==
  CASE m.type \in {"badframe", "badjson"} ->
         [fail_pending(S, c, "ProtocolError") EXCEPT !.reader[c] = "proto"]
    [] m.type \in {"response", "badresponse"} ->
         LET p == Lookup(S, c, m.id)
         IN IF p = NoProc THEN S
            ELSE IF S.fut[p].st # "waiting"
                 THEN [S EXCEPT !.reader[c] = "crashed"]
                 ELSE [S EXCEPT !.fut[p] =
                          IF m.type = "response" THEN Result(m.id, m.status)
                          ELSE Exc("ProtocolError")]
    [] m.type = "badtop" -> [S EXCEPT !.reader[c] = "crashed"]
    [] m.type = "event" -> [S EXCEPT !.events[c] = Append(@, m.id)]
    [] OTHER -> S

\* _read_loop: read() returned data
ReaderStep(c) ==
  /\ pc[Consumer] # "ev_spin"
  /\ reader[c] = "running"
  /\ inbox[c] # <<>>
  /\ Commit(Dispatch([St EXCEPT !.inbox[c] = Tail(@)], c, Head(inbox[c])))

\* _read_loop: read() returned no data or raised OSError
ReaderLost(c) ==
  /\ pc[Consumer] # "ev_spin"
  /\ reader[c] = "running"
  /\ inbox[c] = <<>>
  /\ peer[c] \in {"eof", "reset"}
  /\ LET S1 == [St EXCEPT !.connected[c] = FALSE, !.reader[c] = "lost"]
     IN Commit(IF closed[c] THEN S1 ELSE fail_pending(S1, c, "ConnLost"))

-----------------------------------------------------------------------------
(* The steps of the processes                                              *)

Started == pc[Main] \in {"up", "close_rd", "close_wr", "closed", "close_raised"}
Running(p) == pc[Consumer] # "ev_spin"

\* Client.connect -> Connection.connect: await open_connection
MainConnect ==
  /\ pc[Main] = "start"
  /\ Commit([St EXCEPT !.pc[Main] = "open", !.tconn[Main] = conn])

\* Connection.connect: the transport is open; _handshake writes HELLO
OpenOk(p) ==
  /\ Running(p) /\ pc[p] = "open"
  /\ LET c == tconn[p]
     IN Commit(request_raw([St EXCEPT !.transport[c] = "open",
                                      !.peer[c] = "up"], p, c, "HELLO"))

\* Connection.connect: open_connection raised OSError or timed out
OpenFail(p) ==
  /\ Running(p) /\ pc[p] = "open" /\ faults < MaxFaults
  /\ Commit(ConnectFailed(Fault(St), p, "ConnectFailed"))

\* Connection._request_raw: a frame was read
RawRecv(p) ==
  /\ Running(p) /\ pc[p] \in {"hello", "auth"}
  /\ inbox[tconn[p]] # <<>>
  /\ LET c == tconn[p]
         m == Head(inbox[c])
         S1 == [St EXCEPT !.inbox[c] = Tail(@)]
     IN Commit(CASE m.type = "badframe" -> ConnectFailed(S1, p, "ProtocolError")
                 [] m.type = "response" ->
                      IF pc[p] = "hello" THEN handshake(S1, p, c, m.status)
                      ELSE authenticate(S1, p, c, m.status)
                 [] OTHER -> ConnectFailed(S1, p, "ValidationError"))

\* Connection._request_raw: read() returned no data, or raised OSError
RawLost(p) ==
  /\ Running(p) /\ pc[p] \in {"hello", "auth"}
  /\ inbox[tconn[p]] = <<>>
  /\ \/ /\ peer[tconn[p]] = "eof" \/ transport[tconn[p]] = "closed"
        /\ Commit(ConnectFailed(St, p, "ConnLost"))
     \/ /\ peer[tconn[p]] = "reset" /\ transport[tconn[p]] # "closed"
        /\ Commit(ConnectFailed(St, p, "OSError"))

\* Connection._request_raw: the read timed out
RawTimeout(p) ==
  /\ Running(p) /\ pc[p] \in {"hello", "auth"} /\ faults < MaxFaults
  /\ Commit(ConnectFailed(Fault(St), p, "Timeout"))

\* Client.close
MainClose ==
  /\ Running(Main) /\ pc[Main] = "up"
  /\ Commit(close(St, Main, conn))

\* Client.close called again: after a close that returned or raised, or after
\* a connect that failed
MainCloseAgain ==
  /\ Running(Main) /\ pc[Main] \in {"closed", "close_raised", "failed"}
  /\ Commit(close(St, Main, conn))

\* Connection.close: the cancelled reader task has ended
CloseRd(p) ==
  /\ Running(p) /\ pc[p] = "close_rd"
  /\ Commit(CloseWriter(St, p, tconn[p]))

\* Connection.close: wait_closed returned
CloseWr(p) ==
  /\ Running(p) /\ pc[p] = "close_wr"
  /\ Commit(CloseFinish(St, p, tconn[p]))

\* A caller starts the next Client operation of its script: watch_all stores
\* the subscription parameters and unwatch clears them before the request.
StartOp(S, p) ==
  LET o == Head(S.script[p])
  IN BeginRequest(
       [S EXCEPT !.op[p] = o, !.script[p] = Tail(@), !.outcome[p] = "none",
                 !.watch_params = CASE o.name = "WATCH_ALL" -> o.params
                                    [] o.name = "UNWATCH" -> NoParams
                                    [] OTHER -> @], p)

\* A caller calls the next Client operation of its script.
Call(p) ==
  /\ Running(p) /\ Started
  /\ pc[p] = "idle" /\ script[p] # <<>>
  /\ Commit(StartOp(St, p))

\* A request whose finally clause leaves its entry in the table.
ResumeKeep(p) ==
  /\ Running(p) /\ pc[p] = "await"
  /\ fut[p].st # "waiting"
  /\ LET S1 == St
     IN Commit(CASE fut[p].st = "result" ->
                      RequestExit(S1, p, IF fut[p].val = "ok" THEN "ok"
                                         ELSE "ServerError")
                 [] fut[p].st = "exc" -> ReqFailed(S1, p, try[p], fut[p].val)
                 [] OTHER -> ReqFailed(S1, p, try[p], "Timeout"))

\* Connection.request: wait_for(future) is over; finally pops the entry
Resume(p) ==
  /\ Running(p) /\ pc[p] = "await"
  /\ fut[p].st # "waiting"
  /\ LET S1 == [St EXCEPT !.pending[tconn[p]][tid[p]] = NoProc]
     IN Commit(CASE fut[p].st = "result" ->
                      RequestExit(S1, p, IF fut[p].val = "ok" THEN "ok"
                                         ELSE "ServerError")
                 [] fut[p].st = "exc" -> ReqFailed(S1, p, try[p], fut[p].val)
                 [] OTHER -> ReqFailed(S1, p, try[p], "Timeout"))

\* Connection.request: request_timeout elapsed, wait_for cancels the future
Timeout(p) ==
  /\ Running(p) /\ pc[p] = "await"
  /\ fut[p].st = "waiting" /\ faults < MaxFaults
  /\ Commit([Fault(St) EXCEPT !.fut[p] = Cancelled])

\* Client._reconnect_with_backoff: the sleep is over; Client.reconnect closes
\* the current connection
Wake(p) ==
  /\ Running(p) /\ pc[p] = "sleep"
  /\ Commit(close([St EXCEPT !.delay[p] = 0], p, conn))

\* The consumer starts to iterate Client.events()
EvStart ==
  /\ Started /\ pc[Consumer] = "ev_idle" /\ script[Consumer] # <<>>
  /\ Commit(EvInner([St EXCEPT !.script[Consumer] = <<>>], Consumer, conn))

\* The consumer asks for the next event
EvNext ==
  /\ pc[Consumer] = "ev_busy"
  /\ Commit(EvInner(St, Consumer, tconn[Consumer]))

\* Connection.events: the queue get() the consumer is blocked in returns
EvWake ==
  /\ pc[Consumer] = "ev_blocked"
  /\ events[tconn[Consumer]] # <<>>
  /\ Commit(EvTake(St, Consumer, tconn[Consumer]))

-----------------------------------------------------------------------------
(* The server and the network                                              *)

CanSend(c) ==
  peer[c] = "up" /\ transport[c] = "open" /\ Len(inbox[c]) < MaxInbox

Frame(type, i, status) == [type |-> type, id |-> i, status |-> status]

\* The server answers a request it holds: ok, error, or a response that fails
\* validation.
SrvReply(c, r, kind) ==
  /\ CanSend(c) /\ r \in srvReq[c]
  /\ kind = "bad" => faults < MaxFaults
  /\ Commit([St EXCEPT
       !.faults = IF kind = "bad" THEN @ + 1 ELSE @,
       !.srvReq[c] = @ \ {r},
       !.inbox[c] = Append(@, IF kind = "bad" THEN Frame("badresponse", r[1], "none")
                              ELSE Frame("response", r[1], kind)),
       !.hs[c] = CASE r[2] = "HELLO" /\ kind # "bad" -> [@ EXCEPT !.hello = kind]
                   [] r[2] = "AUTH" /\ kind # "bad" -> [@ EXCEPT !.auth = kind]
                   [] OTHER -> @,
       !.srvWatch[c] = CASE r[2] = "WATCH_ALL" /\ kind = "ok" -> r[3]
                         [] r[2] = "UNWATCH" /\ r[3] = Unwatch.params
                              /\ kind = "ok" -> NoParams
                         [] OTHER -> @])

\* The server pushes an event to a subscribed connection.
SrvEvent(c) ==
  /\ CanSend(c) /\ srvWatch[c] # NoParams /\ nev < MaxEvents
  /\ Commit([St EXCEPT !.nev = @ + 1,
                       !.inbox[c] = Append(@, Frame("event", nev + 1, "none"))])

\* Bytes that are no frame (bad magic, version or checksum), a frame whose
\* payload is no JSON, or a frame whose payload is JSON but no object.
SrvGarbage(c, type) ==
  /\ CanSend(c) /\ faults < MaxFaults
  /\ Commit([Fault(St) EXCEPT
                       !.inbox[c] = Append(@, Frame(type, 0, "none"))])

\* The peer closes the connection (end of stream) or resets it (I/O error;
\* what was not read yet is gone).
SrvClose(c, how) ==
  /\ peer[c] = "up" /\ transport[c] = "open" /\ faults < MaxFaults
  /\ Commit([Fault(St) EXCEPT !.peer[c] = how,
                       !.inbox[c] = IF how = "reset" THEN <<>> ELSE @])

-----------------------------------------------------------------------------
\* The steps of a Client without subscription
Core ==
  \/ MainConnect
  \/ MainClose
  \/ \E p \in Procs : OpenOk(p)
  \/ \E p \in Procs : OpenFail(p)
  \/ \E p \in Procs : RawRecv(p)
  \/ \E p \in Procs : RawLost(p)
  \/ \E p \in Procs : RawTimeout(p)
  \/ \E p \in Procs : CloseRd(p)
  \/ \E p \in Procs : CloseWr(p)
  \/ \E p \in Tasks : Call(p)
  \/ \E p \in Procs : Resume(p)
  \/ \E p \in Procs : Timeout(p)
  \/ \E c \in Conns : ReaderStep(c)
  \/ \E c \in Conns : ReaderLost(c)
  \/ \E c \in Conns : \E r \in srvReq[c], k \in {"ok", "error", "bad"} :
        SrvReply(c, r, k)
  \/ \E c \in Conns, t \in {"badframe", "badjson", "badtop"} : SrvGarbage(c, t)
  \/ \E c \in Conns, h \in {"eof", "reset"} : SrvClose(c, h)

\* The steps of a Client that is connected once and closed once
Engine ==
  \/ Core
  \/ \E c \in Conns : SrvEvent(c)
  \/ EvStart
  \/ EvNext
  \/ EvWake

\* Without auto-reconnect; Client.close() may be called again
NextC ==
  \/ Engine
  \/ MainCloseAgain

\* With auto-reconnect
Next ==
  \/ Engine
  \/ \E p \in Procs : Wake(p)

\* The connection engine under a Client without auto-reconnect
Spec == Init /\ [][NextC]_vars

\* The reconnection orchestrator: a Client with auto-reconnect
SpecR == InitR /\ [][Next]_vars

\* Client(auto_reconnect=True, max_reconnect_attempts=MaxGiveUp): one caller
\* that subscribes, beside the consumer of events.
InitG ==
  /\ auto_reconnect = TRUE /\ token = FALSE
  /\ reconnect_base_delay = 1 /\ reconnect_max_delay = MaxDelay
  /\ max_reconnect_attempts = MaxGiveUp
  /\ faults = 0
  /\ conn_cap = MaxConns
  /\ Constructed
  /\ NoWire
  /\ script = Scripts(<<WatchAll>>, <<>>, TRUE)

\* The reconnection orchestrator with a limit of attempts, under a consumer
SpecG == InitG /\ [][Next]_vars

\* Client(auto_reconnect=True) under a caller that subscribes with watch_all
\* and then cancels that subscription, or subscribes to one instance too and
\* cancels the instance subscription.
InitW ==
  /\ auto_reconnect = TRUE /\ token = FALSE
  /\ reconnect_base_delay = 1 /\ reconnect_max_delay = MaxDelay
  /\ max_reconnect_attempts = 0
  /\ faults = 0
  /\ conn_cap = MaxConns
  /\ Constructed
  /\ NoWire
  /\ \E s \in {<<WatchAll, Unwatch>>,
                <<WatchAll, WatchInstance, UnwatchInstance>>} :
       script = Scripts(s, <<>>, FALSE)

\* With auto-reconnect, without a consumer of events
NextW ==
  \/ Core
  \/ \E c \in Conns : SrvEvent(c)
  \/ \E p \in Procs : Wake(p)

\* The subscriptions of a Client with auto-reconnect
SpecW == InitW /\ [][NextW]_vars

\* Client(auto_reconnect=True) under two concurrent callers of ping, whose
\* reconnects may overlap: up to MaxRaceConns Connection objects, and one
\* fault.
InitRace ==
  /\ auto_reconnect = TRUE /\ token = FALSE
  /\ reconnect_base_delay = 1 /\ reconnect_max_delay = MaxDelay
  /\ max_reconnect_attempts = 0
  /\ faults = MaxFaults - 1
  /\ conn_cap = MaxRaceConns
  /\ Constructed
  /\ NoWire
  /\ script = Scripts(<<Ping>>, <<Ping>>, FALSE)

\* With auto-reconnect, without subscription
NextRace ==
  \/ Core
  \/ \E p \in Procs : Wake(p)

\* Overlapping reconnects of two callers
SpecRace == InitRace /\ [][NextRace]_vars

\* Client(auto_reconnect=True) whose connect() failed because the server is
\* down: any base delay, the cap of the examples or a cap below the base, and
\* no limit of attempts, a small one or a large one.
InitB ==
  /\ auto_reconnect = TRUE /\ token = FALSE
  /\ reconnect_base_delay \in 1..MaxBase
  /\ reconnect_max_delay \in {1, MaxDelay}
  /\ max_reconnect_attempts \in 0..MaxTries \cup {FloatMaxExp + 1}
  /\ faults = 0
  /\ conn_cap = MaxConns
  /\ Constructed
  /\ NoWire
  /\ script = Scripts(<<Ping>>, <<>>, FALSE)

\* A caller starts a Client operation on the Client that never connected:
\* _ensure_connected enters the backoff loop.
CallDown(p) ==
  /\ pc[Main] = "start" /\ pc[p] = "idle" /\ script[p] # <<>>
  /\ Apply(StartOp(St, p))

\* _reconnect_with_backoff: the sleep is over, Client.reconnect raises a
\* ConnectionError (the server is still down) and the loop starts over.
ReconnectFails(p) ==
  /\ pc[p] = "sleep" /\ reconnect_attempt < MaxBackoff
  /\ Apply(reconnect_with_backoff([St EXCEPT !.delay[p] = 0], p, stage[p]))

NextB ==
  \/ \E p \in Tasks : CallDown(p)
  \/ \E p \in Tasks : ReconnectFails(p)

\* The backoff loop on its own, against a server that stays down
SpecB == InitB /\ [][NextB]_vars

\* The steps the event loop, the callers, the consumer and a well-behaved
\* server take on their own: everything but the faults, the user's close and
\* the server's choice to emit an event.
Progress ==
  \/ MainConnect
  \/ EvStart
  \/ EvNext
  \/ EvWake
  \/ \E p \in Procs : OpenOk(p) \/ RawRecv(p) \/ RawLost(p)
  \/ \E p \in Procs : CloseRd(p) \/ CloseWr(p) \/ Wake(p)
  \/ \E p \in Tasks : Call(p)
  \/ \E p \in Procs : Resume(p)
  \/ \E c \in Conns : ReaderStep(c) \/ ReaderLost(c)
  \/ \E c \in Conns : \E r \in srvReq[c] : SrvReply(c, r, "ok")

\* The reconnection orchestrator under a fair scheduler and a server that
\* answers what it receives
SpecF == InitR /\ [][Next]_vars /\ WF_vars(Progress)

\* The connection engine without auto-reconnect under a fair scheduler and a
\* server that answers what it receives
SpecCF == Init /\ [][NextC]_vars /\ WF_vars(Progress)

-----------------------------------------------------------------------------
(* protocol.py: the frame codec.  Bytes are numbers in 0..255, byte strings *)
(* are sequences of them, 32-bit words are sequences of 32 bits, the least  *)
(* significant first.                                                       *)

MAGIC == <<82, 67, 80, 88>>
PROTOCOL_VERSION == 1
FLAG_CRC_PRESENT == 1
HEADER_SIZE == 18

CRC32C_POLY == <<0, 0, 0, 1, 1, 1, 1, 0, 1, 1, 0, 1, 1, 1, 0, 0,
                 0, 1, 1, 0, 1, 1, 1, 1, 0, 1, 0, 0, 0, 0, 0, 1>>

\* The word of value b, for a byte b
Word(b) == [i \in 1..32 |-> IF i <= 8 THEN (b \div 2 ^ (i - 1)) % 2 ELSE 0]
\* w ^ v
Xor(w, v) == [i \in 1..32 |-> (w[i] + v[i]) % 2]
\* w >> n
Shr(w, n) == [i \in 1..32 |-> IF i + n <= 32 THEN w[i + n] ELSE 0]
\* w & 0xFF, as a number
LowByte(w) ==
  w[1] + 2 * w[2] + 4 * w[3] + 8 * w[4] + 16 * w[5] + 32 * w[6] + 64 * w[7]
  + 128 * w[8]
\* 0xFFFFFFFF
Ones == [i \in 1..32 |-> 1]

\* _init_crc32c_table, the inner loop: n more rounds on crc
RECURSIVE Rounds(_, _)
Rounds(crc, n) ==
  IF n = 0 THEN crc
  ELSE Rounds(IF crc[1] = 1 THEN Xor(Shr(crc, 1), CRC32C_POLY)
              ELSE Shr(crc, 1), n - 1)

\* _CRC32C_TABLE[i]
CRC32C_TABLE(i) == Rounds(Word(i), 8)

\* crc32c, the loop over the bytes of data, from the register crc
RECURSIVE crc_loop(_, _)
crc_loop(crc, data) ==
  IF data = <<>> THEN crc
  ELSE crc_loop(Xor(Shr(crc, 8),
                    CRC32C_TABLE(LowByte(Xor(crc, Word(Head(data)))))),
                Tail(data))

\* A checksum that does not depend on the data.
crc_none(data) == Word(0)

\* crc32c(data), a word
crc32c(data) == Xor(crc_loop(Ones, data), Ones)

\* struct.pack(">H", n) and struct.pack(">I", n) for a number n
PackH(n) == <<(n \div 256) % 256, n % 256>>
PackI(n) == <<(n \div 16777216) % 256, (n \div 65536) % 256,
              (n \div 256) % 256, n % 256>>
\* struct.pack(">I", w) for a word w
PackWord(w) == [k \in 1..4 |-> LowByte(Shr(w, 8 * (4 - k)))]
\* struct.unpack of a big-endian unsigned number
RECURSIVE Unpack(_)
Unpack(b) ==
  IF b = <<>> THEN 0 ELSE 256 * Unpack(SubSeq(b, 1, Len(b) - 1)) + b[Len(b)]

\* Frame(payload, use_crc, header_extension)
MkFrame(payload, use_crc, header_extension) ==
  [payload |-> payload, use_crc |-> use_crc,
   header_extension |-> header_extension]

\* An encoder that writes the lengths with the low byte first.
encode_le(f) ==
  LET flags == IF f.use_crc THEN FLAG_CRC_PRESENT ELSE 0
      header_len == Len(f.header_extension)
      payload_len == Len(f.payload)
      crc == IF f.use_crc THEN PackWord(crc32c(f.payload)) ELSE PackI(0)
  IN MAGIC \o PackH(PROTOCOL_VERSION) \o PackH(flags)
     \o <<header_len % 256, (header_len \div 256) % 256>>
     \o PackI(payload_len) \o crc \o f.header_extension \o f.payload

\* Frame.encode
encode(f) ==
  LET flags == IF f.use_crc THEN FLAG_CRC_PRESENT ELSE 0
      header_len == Len(f.header_extension)
      payload_len == Len(f.payload)
      crc == IF f.use_crc THEN PackWord(crc32c(f.payload)) ELSE PackI(0)
  IN MAGIC \o PackH(PROTOCOL_VERSION) \o PackH(flags) \o PackH(header_len)
     \o PackI(payload_len) \o crc \o f.header_extension \o f.payload

NoFrame ==
  [st |-> "none", frame |-> MkFrame(<<>>, FALSE, <<>>), err |-> "none",
   rest |-> <<>>]

\* Frame.decode: a frame and the rest, no frame and the buffer as it was, or
\* a ProtocolError
decode(buf) ==
  IF Len(buf) < HEADER_SIZE THEN [NoFrame EXCEPT !.rest = buf]
  ELSE
    LET magic == SubSeq(buf, 1, 4)
        version == Unpack(SubSeq(buf, 5, 6))
        flags == Unpack(SubSeq(buf, 7, 8))
        header_len == Unpack(SubSeq(buf, 9, 10))
        payload_len == Unpack(SubSeq(buf, 11, 14))
        crc_expected == SubSeq(buf, 15, 18)
        has_crc == flags % 2 = 1
        total_size == HEADER_SIZE + header_len + payload_len
        header_extension == SubSeq(buf, HEADER_SIZE + 1,
                                   HEADER_SIZE + header_len)
        payload == SubSeq(buf, HEADER_SIZE + header_len + 1, total_size)
    IN IF magic # MAGIC
       THEN [NoFrame EXCEPT !.st = "error", !.err = "Invalid magic",
                            !.rest = buf]
       ELSE IF version # PROTOCOL_VERSION
       THEN [NoFrame EXCEPT !.st = "error", !.err = "Unsupported version",
                            !.rest = buf]
       ELSE IF Len(buf) < total_size THEN [NoFrame EXCEPT !.rest = buf]
       ELSE IF has_crc /\ crc_expected # PackWord(crc32c(payload))
       THEN [NoFrame EXCEPT !.st = "error", !.err = "CRC mismatch",
                            !.rest = buf]
       ELSE [st |-> "frame", err |-> "none",
             frame |-> MkFrame(payload, has_crc, header_extension),
             rest |-> SubSeq(buf, total_size + 1, Len(buf))]

\* The byte strings of length at most n over the bytes of B
RECURSIVE Strings(_, _)
Strings(B, n) ==
  IF n = 0 THEN {<<>>}
  ELSE Strings(B, n - 1)
       \cup {Append(x, b) : x \in {y \in Strings(B, n - 1) : Len(y) = n - 1},
                            b \in B}

\* b with bit j flipped
FlipBit(b, j) ==
  IF (b \div 2 ^ j) % 2 = 1 THEN b - 2 ^ j ELSE b + 2 ^ j

\* The encoded frame e of f with one bit changed in transit: bit k of the
\* header's checksum field for k in 1..32, of the payload above; none for 0.
Corrupt(e, f, k) ==
  LET at == IF k <= 32 THEN 14 + ((k - 1) \div 8) + 1
            ELSE HEADER_SIZE + Len(f.header_extension) + ((k - 33) \div 8) + 1
  IN IF k = 0 THEN e
     ELSE [e EXCEPT ![at] = FlipBit(@, (k - 1) % 8)]

\* The peer has encoded one frame, a bit of it may change in transit, and
\* some bytes may follow it; nothing was read yet.
InitP ==
  /\ auto_reconnect = FALSE /\ token = FALSE /\ max_reconnect_attempts = 0
  /\ reconnect_base_delay = 1 /\ reconnect_max_delay = MaxDelay
  /\ faults = 0
  /\ conn_cap = MaxConns
  /\ Constructed
  /\ script = Scripts(<<>>, <<>>, FALSE)
  /\ frame \in {MkFrame(pl, crc, ext) :
                  pl \in Strings({0, 1, 255}, MaxPayload), crc \in BOOLEAN,
                  ext \in Strings({7}, MaxExt)}
  /\ extra \in Strings({82}, MaxExtra)
  /\ flip \in 0..(32 + 8 * Len(frame.payload))
  /\ net = Corrupt(encode(frame), frame, flip) \o extra

\* A decode loop that forgets what follows a frame in the buffer.
RECURSIVE drain_drop(_, _)
RECURSIVE drain(_, _)
drain_drop(buf, acc) ==
  LET d == decode(buf)
  IN CASE d.st = "frame" -> drain_drop(<<>>, Append(acc, d.frame))
       [] d.st = "error" -> [buffer |-> buf, decoded |-> acc, err |-> d.err]
       [] OTHER -> [buffer |-> d.rest, decoded |-> acc, err |-> "none"]

\* _read_loop, the inner loop: decode frames from the buffer until it holds
\* no whole frame or decode raises
drain(buf, acc) ==
  LET d == decode(buf)
  IN CASE d.st = "frame" -> drain(d.rest, Append(acc, d.frame))
       [] d.st = "error" -> [buffer |-> buf, decoded |-> acc, err |-> d.err]
       [] OTHER -> [buffer |-> d.rest, decoded |-> acc, err |-> "none"]

\* _read_loop: read() returns the next n bytes, which are appended to the
\* buffer and decoded
Read(n) ==
  /\ raised = "none" /\ n <= Len(net)
  /\ LET r == drain(buffer \o SubSeq(net, 1, n), decoded)
     IN /\ buffer' = r.buffer /\ decoded' = r.decoded /\ raised' = r.err
        /\ net' = SubSeq(net, n + 1, Len(net))
  /\ UNCHANGED <<cfgVars, progVars, frame, extra, flip>>

NextP == \E n \in 1..MaxRead : Read(n)

\* The frame codec under a reader that gets the bytes in pieces
SpecP == InitP /\ [][NextP]_vars

-----------------------------------------------------------------------------
(* Properties                                                              *)

\* C1 (identifier correlation): a caller waiting in Connection.request() that
\* has been resolved with a response holds the response whose id is the id
\* assigned to its own request, whatever the order of the responses.
C1_IdentifierCorrelation ==
  \A p \in Procs :
    (pc[p] = "await" /\ fut[p].st = "result") => fut[p].id = tid[p]

\* Two requests are pending on one connection and the later one was answered
\* first.
C1_Shuffled ==
  \E p, q \in Tasks :
    /\ pc[p] = "await" /\ pc[q] = "await" /\ tconn[p] = tconn[q]
    /\ tid[p] < tid[q]
    /\ fut[p].st = "waiting" /\ fut[q].st = "result" /\ fut[q].id = tid[q]

\* C2 (disconnect broadcast): when the reader finds the stream ended or the
\* read failed, it ends as "lost" (no exception), the connection is marked not
\* connected, every pending request that was waiting is failed with the
\* connection-lost error and the pending table is empty.
C2_DisconnectBroadcast ==
  [][\A c \in Conns :
       ( /\ reader[c] = "running" /\ inbox[c] = <<>>
         /\ peer[c] \in {"eof", "reset"}
         /\ reader'[c] \notin {"running", "cancelled"} )
       => /\ reader'[c] = "lost"
          /\ ~connected'[c]
          /\ pending'[c] = [i \in Ids |-> NoProc]
          /\ \A p \in Owners(St, c) :
               fut[p].st = "waiting" => fut'[p] = Exc("ConnLost")]_vars

\* The reader has ended on a lost connection and two pending requests were
\* failed with the connection-lost error.
C2_TwoFailed ==
  \E c \in Conns :
    /\ reader[c] = "lost" /\ ~connected[c]
    /\ \A p \in Tasks : pc[p] = "await" /\ tconn[p] = c
                        /\ fut[p] = Exc("ConnLost")

\* The connection is lost or closed for good: the peer is gone and the reader
\* has ended, or Client.close() is over.
Gone(c) ==
  \/ peer[c] \in {"eof", "reset"}
       /\ reader[c] \in {"lost", "proto", "crashed", "exited"}
  \/ closed[c] /\ pc[Main] \in {"closed", "close_raised"}

\* C3 (exactly-once resolution): the reader never completes a handle that is
\* already done (it would end with InvalidStateError), and no registered
\* entry still waits once the connection is lost or closed.
C3_ExactlyOnce ==
  \A c \in Conns :
    /\ reader[c] # "crashed"
    /\ Gone(c) => \A p \in Owners(St, c) : fut[p].st # "waiting"

\* The server dropped the current connection c while the subscription was
\* active on it and the consumer was iterating Client.events() on it.
Dropped(c) ==
  /\ auto_reconnect /\ conn = c /\ pc[Main] = "up"
  /\ watch_params # NoParams /\ srvWatch[c] = watch_params
  /\ pc[Consumer] \in {"ev_blocked", "ev_busy"} /\ tconn[Consumer] = c
  /\ peer[c] \in {"eof", "reset"}

\* C4 (end-to-end resubscription liveness): with auto-reconnect and an active
\* watch-all subscription, after the server drops the connection under an
\* iterating consumer the client eventually reconnects, that is, it leaves the
\* dropped connection for a new one (unless the user closes the client or
\* unsubscribes first); resubscription and further delivery come after that.
C4_Resubscription ==
  \A c \in Conns :
    Dropped(c) ~> (conn # c \/ pc[Main] # "up" \/ watch_params = NoParams)

\* C5 (watch replay on every reconnect): on a connection made by a reconnect
\* while the parameters of a subscription the server had confirmed were held,
\* a caller gets a response only after WATCH_ALL with exactly those
\* parameters was written to that connection (the client not being closed).
C5_WatchReplay ==
  \A p \in Procs, c \in Conns :
    ( /\ pc[Main] = "up"
      /\ heldAt[c] # NoParams
      /\ \E d \in Conns : d < c /\ srvWatch[d] = heldAt[c]
      /\ pc[p] = "await" /\ tconn[p] = c /\ fut[p].st = "result" )
    => watchSent[c] = heldAt[c]

\* C6 (retry at most once): one Client operation writes its request at most
\* twice; the second write happens in the step that completes the caller's own
\* reconnect after a ConnectionError; and when the re-sent request is over,
\* whatever its outcome, the operation returns to the caller.
C6_RetryAtMostOnce ==
  /\ [](\A p \in Procs : wrote[p] <= 2)
  /\ [][\A p \in Tasks :
         /\ (wrote[p] = 1 /\ wrote'[p] = 2)
              => /\ pc[p] \in {"hello", "auth"} /\ stage[p] = "retry"
                 /\ IsConnErr(lastErr[p])
                 /\ connected'[tconn[p]]
         /\ (try[p] = 2 /\ pc[p] = "await" /\ pc'[p] # "await")
              => /\ pc'[p] = "idle"
                 /\ fut[p].st # "result" => outcome'[p] \notin {"ok", "none"}]_vars

\* A caller got the ConnectionError of its re-sent request: two writes, then
\* the failure.
C6_SecondFailure ==
  \E p \in Tasks :
    pc[p] = "idle" /\ wrote[p] = 2 /\ IsConnErr(outcome[p])

\* C7 (request timeout): a request that timed out is not written again on
\* the caller's behalf (the client not being closed).
C7_TimeoutNotResent ==
  \A p \in Procs :
    (pc[Main] = "up" /\ lastErr[p] = "Timeout") => wrote[p] <= 1

\* C8 (handshake ordering): AUTH is written only with a credential and after
\* HELLO was answered ok; the reader exists and the connection is connected
\* only after HELLO, and AUTH when a credential is configured, were answered ok.
C8_HandshakeOrdering ==
  \A c \in Conns :
    LET done == hs[c].hello = "ok" /\ (token => hs[c].auth = "ok")
    IN /\ is_connected(St, c) => done
       /\ connected[c] => done
       /\ reader[c] # "none" => done
       /\ \A p \in Procs : (pc[p] = "auth" /\ tconn[p] = c)
                               => token /\ hs[c].hello = "ok"
       /\ hs[c].auth # "none" => token /\ hs[c].hello = "ok"
       /\ hs[c].hello # "none" => transport[c] # "none"

\* A connection with a credential is connected, after HELLO and AUTH.
C8_Authenticated ==
  token /\ is_connected(St, conn) /\ reader[conn] = "running"
  /\ hs[conn].auth = "ok"

\* C9 (handshake rejection): when the HELLO response read by connect() has a
\* status other than ok, connect() fails with a ConnectionError, no AUTH is
\* written, no reader is started and the connection is not connected, then
\* and as long as the Client stays failed.
C9_HandshakeRejection ==
  /\ [](pc[Main] = "failed" =>
          ~is_connected(St, conn) /\ reader[conn] = "none")
  /\ [][\A p \in Procs :
         LET c == tconn[p]
         IN ( /\ pc[p] = "hello" /\ inbox[c] # <<>>
              /\ Head(inbox[c]).type = "response"
              /\ Head(inbox[c]).status # "ok"
              /\ pc'[p] # "hello" /\ inbox'[c] = Tail(inbox[c]) )
            => /\ pc'[p] # "auth" /\ pc'[p] # "up"
               /\ p = Main => pc'[p] = "failed" /\ IsConnErr(outcome'[p])
               /\ reader'[c] = "none" /\ ~connected'[c]
               /\ \A r \in srvReq'[c] : r[2] # "AUTH"]_vars

\* connect() failed on a rejected HELLO although a credential was configured.
C9_Rejected ==
  /\ token /\ pc[Main] = "failed" /\ outcome[Main] = "HandshakeFailed"
  /\ hs[conn].hello = "error" /\ hs[conn].auth = "none"

\* C11 (close is idempotent): Client.close() never raises; when it has
\* returned the reader is stopped, no registered request still waits, the
\* transport is released; and calling it again changes nothing.
C11_CloseIdempotent ==
  /\ pc[Main] # "close_raised"
  /\ pc[Main] = "closed" =>
       /\ closed[conn] /\ transport[conn] # "open" /\ reader[conn] # "running"
       /\ \A p \in Owners(St, conn) : fut[p].st # "waiting"
       /\ close(St, Main, conn) = St

\* C12 (close keeps the event queue): when Client.close() has returned no
\* registered request still waits, and the iterator of a closed connection
\* does not end while events the reader enqueued are still in the queue.
C12_CloseKeepsEvents ==
  /\ pc[Main] = "closed" =>
       \A p \in Owners(St, conn) : fut[p].st # "waiting"
  /\ \A c \in Conns :
       (closed[c] /\ pc[Consumer] = "ev_end") => events[c] = <<>>

\* C13 (events survive a reconnect): once the client has reconnected and the
\* consumer of Client.events() takes its events from the new connection, no
\* event the reader enqueued before the disconnect is left behind untaken.
C13_EventsSurviveReconnect ==
  \A c, d \in Conns :
    ( /\ d < c /\ conn = c /\ is_connected(St, c) /\ pc[Main] = "up"
      /\ pc[Consumer] \in {"ev_blocked", "ev_busy"} /\ tconn[Consumer] = c )
    => events[d] = <<>>

\* The elements of s are in the order of the server's emission (the server
\* numbers its events as it emits them), none twice.
Increasing(s) == \A i, j \in 1..Len(s) : i < j => s[i] < s[j]

\* C14 (event ordering): what the consumer has received, followed by what
\* waits in the queue of the connection it iterates, is in the order the
\* server sent it, each event at most once; so is every connection's queue.
C14_EventOrdering ==
  /\ Increasing(delivered)
  /\ \A c \in Conns : Increasing(events[c])
  /\ pc[Consumer] \in {"ev_blocked", "ev_busy"}
       => Increasing(delivered \o events[tconn[Consumer]])

\* The consumer took event 1 and event 2 waits in the queue, while the reader
\* has dispatched the response of a later request on the same connection.
C14_TwoEvents ==
  /\ delivered = <<1>> /\ events[conn] = <<2>>
  /\ pc[Consumer] = "ev_busy" /\ tconn[Consumer] = conn
  /\ pc[1] = "await" /\ op[1] = Ping /\ fut[1].st = "result"

\* C15 (backoff schedule): every reconnect attempt k = 1, 2, ... is preceded
\* by a sleep of min(base_delay * 2^(k-1), max_delay), which never exceeds
\* max_delay; with base 1 and max 30 the delays are 1, 2, 4, 8, 16, 30, 30, ...
C15_BackoffSchedule ==
  \A p \in Tasks :
    /\ outcome[p] # "OverflowError"
    /\ pc[p] = "sleep" =>
         LET k == reconnect_attempt
             b == reconnect_base_delay
             m == reconnect_max_delay
         IN /\ delay[p] = IF k - 1 >= 30 THEN m ELSE Min(b * 2 ^ (k - 1), m)
            /\ delay[p] <= m
            /\ (b = 1 /\ m = 30 /\ k <= 7)
                  => delay[p] = <<1, 2, 4, 8, 16, 30, 30>>[k]

\* C16 (bounded give-up): against a server that stays down, with the counter
\* at zero and max_reconnect_attempts = N, the backoff loop sleeps for no
\* attempt beyond the N-th when N > 0, and it ends only with N > 0, after
\* exactly N attempts, by raising the terminal connection error; with N = 0
\* it does not end.
C16_BoundedGiveUp ==
  \A p \in Tasks :
    LET N == max_reconnect_attempts
    IN /\ (pc[p] = "sleep" /\ N > 0) => reconnect_attempt <= N
       /\ (pc[p] = "idle" /\ outcome[p] # "none")
            => N > 0 /\ outcome[p] = "GiveUp" /\ reconnect_attempt = N + 1

\* C17 (give-up is surfaced to the event consumer): when the backoff loop
\* entered from Client.events() has given up, the iterator has raised the
\* terminal connection error to its consumer; it neither waits nor retries
\* (the client not being closed).
C17_GiveUpSurfaced ==
  (pc[Main] = "up" /\ lastErr[Consumer] = "GiveUp")
    => pc[Consumer] = "ev_raised" /\ outcome[Consumer] = "GiveUp"

\* The connection has become unusable: closed locally, or its reader has
\* ended on a peer close, an I/O error or a protocol error.
Unusable(c) == closed[c] \/ reader[c] \in {"lost", "proto"}

\* C18 (fail fast without auto-reconnect): with auto-reconnect disabled, a
\* Client operation called while the connection is unusable ends in the call
\* itself with a connection error; no request is written, no id is taken, no
\* new connection is made.
C18_FailFast ==
  \A p \in Tasks :
    ( /\ ~auto_reconnect /\ Started /\ Running(p)
      /\ pc[p] = "idle" /\ script[p] # <<>>
      /\ Unusable(conn) )
    => LET S2 == StartOp(St, p)
       IN /\ S2.pc[p] = "idle" /\ IsConnErr(S2.outcome[p])
          /\ S2.wrote[p] = 0 /\ S2.srvReq = srvReq
          /\ S2.request_id = request_id /\ S2.pending = pending
          /\ S2.nconns = nconns /\ S2.conn = conn

\* C19 (server errors are surfaced, never retried): when a request is over
\* with a response of status error, the Client operation raises ServerError
\* (to the caller, or out of Client.events() to the consumer) in that step;
\* nothing is written, no id is taken, no backoff is entered and no
\* connection is closed or made, with auto-reconnect enabled too.
C19_ServerErrorSurfaced ==
  [][\A p \in Procs :
       ( /\ pc[p] = "await" /\ fut[p].st = "result" /\ fut[p].val = "error"
         /\ pc'[p] # "await" )
       => /\ outcome'[p] = "ServerError"
          /\ pc'[p] = IF p = Consumer THEN "ev_raised" ELSE "idle"
          /\ srvReq' = srvReq /\ request_id' = request_id
          /\ reconnect_attempt' = reconnect_attempt
          /\ closed' = closed /\ nconns' = nconns /\ conn' = conn]_vars

\* With auto-reconnect enabled a caller got the ServerError of its request,
\* which was written once, on the first connection.
C19_ErrorReturned ==
  \E p \in Tasks :
    /\ auto_reconnect /\ pc[p] = "idle" /\ outcome[p] = "ServerError"
    /\ wrote[p] = 1 /\ nconns = 1 /\ reconnect_attempt = 0

\* The request of p on connection c has failed on its own: it timed out, its
\* response did not validate, or the server answered it with an error.
FailedAlone(p, c) ==
  \/ /\ pc[p] = "await" /\ tconn[p] = c
     /\ \/ fut[p].st = "cancelled"
        \/ fut[p] = Exc("ProtocolError")
        \/ fut[p].st = "result" /\ fut[p].val = "error"
  \/ /\ pc[p] = "idle" /\ wrote[p] > 0
     /\ outcome[p] \in {"Timeout", "ProtocolError", "ServerError"}

\* C20 (failure isolation): after the failure of one request, another
\* request that is pending on the same connection, which is neither lost nor
\* closed, is still pending and resolvable: its entry is registered and the
\* reader is there to dispatch its response.
C20_FailureIsolation ==
  \A p, q \in Tasks, c \in Conns :
    ( /\ p # q /\ FailedAlone(p, c)
      /\ pc[q] = "await" /\ tconn[q] = c /\ fut[q].st = "waiting"
      /\ ~closed[c] /\ peer[c] = "up" /\ reader[c] \notin {"lost", "proto"} )
    => pending[c][tid[q]] = q /\ reader[c] = "running"

\* After the failure of a reconnect attempt of p the state is S: p sleeps
\* before the next attempt, or the attempt limit is passed.
BackedOff(S, p) ==
  \/ S.pc[p] = "sleep"
  \/ /\ S.max_reconnect_attempts > 0
     /\ S.reconnect_attempt > S.max_reconnect_attempts

\* C21 (rejection during reconnect feeds the backoff cycle): with
\* auto-reconnect, when the connect of a reconnect attempt fails because the
\* host is unreachable, the read timed out, the peer closed, or HELLO or AUTH
\* was answered with a rejection, the caller goes to the next backoff attempt
\* (or the limit is passed); the failure is not raised to it (the client
\* not being closed).
C21_RejectionFeedsBackoff ==
  \A p \in Tasks \cup {Consumer} :
    LET c == tconn[p]
        S1 == [St EXCEPT !.inbox[c] = Tail(@)]
        on == auto_reconnect /\ pc[Main] = "up"
        rejected == /\ inbox[c] # <<>> /\ Head(inbox[c]).type = "response"
                    /\ Head(inbox[c]).status # "ok"
    IN /\ (on /\ pc[p] = "open")
            => BackedOff(ConnectFailed(St, p, "ConnectFailed"), p)
       /\ (on /\ pc[p] \in {"hello", "auth"})
            => /\ BackedOff(ConnectFailed(St, p, "Timeout"), p)
               /\ BackedOff(ConnectFailed(St, p, "ConnLost"), p)
       /\ (on /\ pc[p] = "hello" /\ rejected)
            => BackedOff(handshake(S1, p, c, Head(inbox[c]).status), p)
       /\ (on /\ pc[p] = "auth" /\ rejected)
            => BackedOff(authenticate(S1, p, c, Head(inbox[c]).status), p)

\* C22 (frame round-trip): decoding the encoding of a frame gives a frame
\* with the same payload, header extension and checksum flag, and an empty
\* remainder; and a reader that got all the bytes of an unchanged frame, in
\* whatever pieces, has decoded exactly that frame.
C22_FrameRoundTrip ==
  /\ LET d == decode(encode(frame))
     IN /\ d.st = "frame" /\ d.rest = <<>>
        /\ d.frame.payload = frame.payload
        /\ d.frame.header_extension = frame.header_extension
        /\ d.frame.use_crc = frame.use_crc
  /\ (flip = 0 /\ net = <<>>) => decoded = <<frame>> /\ raised = "none"

\* A frame with payload, header extension and checksum was read whole and
\* decoded.
C22_Decoded ==
  /\ flip = 0 /\ net = <<>> /\ extra = <<>> /\ decoded = <<frame>>
  /\ Len(frame.payload) = MaxPayload /\ frame.use_crc
  /\ frame.header_extension # <<>> /\ buffer = <<>>

\* C23 (partial-frame handling): decode of every proper prefix of an encoded
\* frame returns no frame and the prefix unchanged; decode of the frame
\* followed by more bytes returns the frame and exactly those bytes; so a
\* reader fed the bytes in pieces has no frame before the last byte of the
\* frame arrived, and the frame once and the following bytes kept after it.
C23_PartialFrame ==
  LET e == encode(frame)
      fed == Len(e) + Len(extra) - Len(net)
  IN /\ \A n \in 0..(Len(e) - 1) :
          LET d == decode(SubSeq(e, 1, n))
          IN d.st = "none" /\ d.rest = SubSeq(e, 1, n)
     /\ LET d == decode(e \o extra)
        IN d.st = "frame" /\ d.frame = frame /\ d.rest = extra
     /\ (flip = 0 /\ fed < Len(e))
          => decoded = <<>> /\ raised = "none" /\ buffer = SubSeq(e, 1, fed)
     /\ (flip = 0 /\ fed >= Len(e))
          => /\ decoded = <<frame>> /\ raised = "none"
             /\ buffer = SubSeq(extra, 1, fed - Len(e))

\* The reader got a frame and the byte after it in pieces: the frame is
\* decoded and the byte is what is left in the buffer.
C23_FrameAndRest ==
  /\ flip = 0 /\ net = <<>> /\ extra # <<>> /\ frame.payload # <<>>
  /\ decoded = <<frame>> /\ buffer = extra

\* C24 (checksum enforcement): for a frame encoded with the checksum flag,
\* after the change of any single bit of the payload or of the header's
\* checksum field decode raises the checksum-mismatch ProtocolError; the
\* reader never gets the changed frame as a frame, and has raised that error
\* once all its bytes are there.
C24_ChecksumEnforced ==
  (frame.use_crc /\ flip # 0)
  => /\ LET d == decode(Corrupt(encode(frame), frame, flip))
        IN d.st = "error" /\ d.err = "CRC mismatch"
     /\ decoded = <<>>
     /\ raised \in {"none", "CRC mismatch"}
     /\ Len(net) <= Len(extra) => raised = "CRC mismatch"

\* The reader raised the checksum mismatch on a frame one payload bit of
\* which had changed.
C24_PayloadBitCaught ==
  /\ frame.use_crc /\ flip > 32 /\ Len(frame.payload) = MaxPayload
  /\ raised = "CRC mismatch" /\ decoded = <<>>

\* C25 (identifier uniqueness per connection): on one Connection every
\* request, handshake requests included, takes the counter's next value, so
\* the ids are 1, 2, 3, ...; no two requests in progress or held by the
\* server have the same id, and no registered pending entry is replaced by
\* another request.
C25_IdentifierUniqueness ==
  /\ [](\A c \in Conns :
          /\ \A r1, r2 \in srvReq[c] : r1[1] = r2[1] => r1 = r2
          /\ \A r \in srvReq[c] : r[1] \in 1..request_id[c]
          /\ \A i \in Ids : pending[c][i] # NoProc => i <= request_id[c]
          /\ \A p, q \in Procs :
               ( /\ p # q /\ pc[p] = "await" /\ pc[q] = "await"
                 /\ tconn[p] = c /\ tconn[q] = c ) => tid[p] # tid[q])
  /\ [][\A c \in Conns :
          /\ request_id'[c] \in {request_id[c], request_id[c] + 1}
          /\ \A i \in Ids :
               /\ (pending[c][i] = NoProc /\ pending'[c][i] # NoProc)
                    => i = request_id[c] + 1 /\ request_id'[c] = i
               /\ pending[c][i] # NoProc
                    => pending'[c][i] \in {pending[c][i], NoProc}
          /\ \A r \in srvReq'[c] \ srvReq[c] : r[1] = request_id[c] + 1]_vars

\* After HELLO and AUTH took the ids 1 and 2, two concurrent callers wait
\* with the ids 3 and 4 on the same connection.
C25_FourIds ==
  \E p, q \in Tasks :
    /\ token /\ request_id[1] = 4
    /\ pc[p] = "await" /\ pc[q] = "await" /\ tconn[p] = 1 /\ tconn[q] = 1
    /\ tid[p] = 3 /\ tid[q] = 4
    /\ pending[1][3] = p /\ pending[1][4] = q

\* C26 (identifiers are not reset by a reconnect): over the Connection
\* objects an open Client has used, in the order it created them, an
\* identifier assigned on an earlier one is never assigned on a later one.
C26_NoResetOnReconnect ==
  pc[Main] = "up" =>
    \A c1, c2 \in 1..nconns :
      c1 < c2 => \A i \in 1..request_id[c2] : i > request_id[c1]

\* C27 (pending-entry lifecycle): every entry of a pending table belongs to
\* a request() call in progress on that connection, under the id the call
\* took, so the table is empty whenever no request() is in progress; a
\* request frame reaches the server only with its entry registered; and
\* when a request() call ends, by whatever outcome, its entry is gone.
C27_PendingLifecycle ==
  /\ [](\A c \in Conns : \A i \in Ids :
          pending[c][i] # NoProc =>
            LET p == pending[c][i]
            IN pc[p] = "await" /\ tconn[p] = c /\ tid[p] = i)
  /\ [][\A c \in Conns :
          /\ \A r \in srvReq'[c] \ srvReq[c] :
               r[2] \notin {"HELLO", "AUTH"} => pending'[c][r[1]] # NoProc
          /\ \A p \in Procs :
               (pc[p] = "await" /\ tconn[p] = c /\ pc'[p] # "await")
                 => pending'[c][tid[p]] = NoProc]_vars

\* A request that was written has ended with a timeout, another one with a
\* result, and with no request() in progress the table is empty.
C27_EndedAndEmpty ==
  \E p, q \in Tasks :
    /\ wrote[p] >= 1 /\ outcome[p] = "Timeout"
    /\ wrote[q] >= 1 /\ outcome[q] = "ok"
    /\ \A t \in Procs : pc[t] # "await"
    /\ \A c \in Conns : Owners(St, c) = {}

\* C28 (malformed response): when the reader takes a response that fails
\* validation, it stays running, the entry with the response's id (if any)
\* is failed with ProtocolError, every other handle, the pending table, the
\* event queue and the connection's state stay as they are.
C28_MalformedResponse ==
  \A c \in Conns :
    ( /\ reader[c] = "running" /\ inbox[c] # <<>>
      /\ Head(inbox[c]).type = "badresponse" )
    => LET m == Head(inbox[c])
           p == pending[c][m.id]
           S2 == Dispatch([St EXCEPT !.inbox[c] = Tail(@)], c, m)
       IN /\ S2.reader[c] = "running"
          /\ p # NoProc => S2.fut[p] = Exc("ProtocolError")
          /\ \A q \in Procs \ {p} : S2.fut[q] = fut[q]
          /\ S2.pending = pending /\ S2.events = events
          /\ S2.connected = connected /\ S2.closed = closed
          /\ S2.transport = transport

\* C29 (unclassifiable payload): when the reader takes a frame whose payload
\* is no JSON, or is JSON but no object, the reader loop ends and every
\* entry that was still waiting is failed with the protocol error, leaving
\* the pending table empty.
C29_UnclassifiablePayload ==
  \A c \in Conns :
    ( /\ reader[c] = "running" /\ inbox[c] # <<>>
      /\ Head(inbox[c]).type \in {"badjson", "badtop"} )
    => LET S2 == Dispatch([St EXCEPT !.inbox[c] = Tail(@)], c, Head(inbox[c]))
       IN /\ S2.reader[c] # "running"
          /\ \A p \in Owners(St, c) :
               fut[p].st = "waiting" => S2.fut[p] = Exc("ProtocolError")
          /\ Owners(S2, c) = {}

\* C30 (unmatched response): when the reader takes a well-formed response
\* whose id has no pending entry, nothing changes but the frame being
\* consumed: no handle is completed, the pending table, the event queue and
\* the connection's state are as before and the reader is still running.
C30_UnmatchedResponse ==
  \A c \in Conns :
    ( /\ reader[c] = "running" /\ inbox[c] # <<>>
      /\ Head(inbox[c]).type = "response"
      /\ pending[c][Head(inbox[c]).id] = NoProc )
    => LET S1 == [St EXCEPT !.inbox[c] = Tail(@)]
       IN Dispatch(S1, c, Head(inbox[c])) = S1

\* A caller timed out and left request(); the response to its request came
\* afterwards and was consumed by the reader, which is still running, while
\* the other caller's request is still registered and waiting.
C30_LateResponseDropped ==
  \E p, q \in Tasks :
    /\ p # q /\ faults = 1 /\ nconns = 1
    /\ pc[p] = "idle" /\ outcome[p] = "Timeout" /\ wrote[p] = 1
    /\ pc[q] = "await" /\ fut[q].st = "waiting" /\ pending[1][tid[q]] = q
    /\ \A r \in srvReq[1] : r[1] = tid[q]
    /\ inbox[1] = <<>> /\ peer[1] = "up" /\ transport[1] = "open"
    /\ reader[1] = "running"

\* C31 (attempt counter): the counter starts at zero; a step changes it only
\* by adding one or by setting it to zero (followed by at most one
\* increment); it grows exactly in the steps in which a process starts a
\* backoff iteration (goes to sleep, or gives up over the limit), and it
\* falls only in a step in which a connect completed: handshake, auth and
\* the connected flag set.
C31_AttemptCounter ==
  /\ reconnect_attempt = 0
  /\ [][LET a == reconnect_attempt
            b == reconnect_attempt'
            done == \E c \in Conns : ~connected[c] /\ connected'[c]
            iter == \E p \in Procs :
                      \/ pc[p] # "sleep" /\ pc'[p] = "sleep"
                      \/ outcome[p] # "GiveUp" /\ outcome'[p] = "GiveUp"
                      \/ lastErr[p] # "GiveUp" /\ lastErr'[p] = "GiveUp"
        IN /\ ~done => (b = a \/ b = a + 1)
           /\ done => b \in {0, 1}
           /\ iter <=> (b = (IF done THEN 0 ELSE a) + 1)]_vars

\* After a reconnect that succeeded on the second Connection the counter is
\* zero again and the caller's request is written on that connection.
C31_ResetAfterReconnect ==
  \E p \in Tasks :
    /\ nconns = 2 /\ connected[2] /\ reconnect_attempt = 0
    /\ pc[p] = "await" /\ tconn[p] = 2

\* Caller p calls the next Client operation of its script in this step.
Calls(p) ==
  pc[p] = "idle" /\ script[p] # <<>> /\ script'[p] = Tail(script[p])

\* C32 (watch-parameter ownership): the stored watch parameters change only
\* in a step in which a caller calls watch_all or unwatch; watch_all sets
\* them to exactly its filters, unwatch clears them, and every other step
\* (connection loss, close, replacement of the Connection by a reconnect,
\* other operations) leaves them as they are.
C32_WatchParamOwnership ==
  [][/\ watch_params' # watch_params
          => \E p \in Tasks : /\ Calls(p)
                              /\ Head(script[p]).name \in {"WATCH_ALL", "UNWATCH"}
     /\ \A p \in Tasks :
          Calls(p) =>
            watch_params' =
              CASE Head(script[p]).name = "WATCH_ALL" -> Head(script[p]).params
                [] Head(script[p]).name = "UNWATCH" -> NoParams
                [] OTHER -> watch_params]_vars

\* The first connection was lost and closed and a reconnect replaced it by a
\* second one, which is connected; the filters of watch_all are still stored.
C32_KeptAcrossReconnect ==
  /\ nconns = 2 /\ connected[2] /\ closed[1]
  /\ peer[1] \in {"eof", "reset"}
  /\ watchSent[1] = WatchAll.params
  /\ watch_params = WatchAll.params

\* C33 (reconnection is serialized): with the Client open, a user request
\* is registered on, or written to, a Connection only after its handshake
\* has completed (its reader was started), and the frame a handshake step
\* is about to take as its reply carries the id of that step's own request.
C33_ReconnectSerialized ==
  pc[Main] = "up" =>
    \A c \in Conns :
      /\ ( \/ Owners(St, c) # {}
           \/ \E r \in srvReq[c] : r[2] \notin {"HELLO", "AUTH"} )
         => reader[c] # "none"
      /\ \A p \in Procs :
           ( /\ pc[p] \in {"hello", "auth"} /\ tconn[p] = c
             /\ inbox[c] # <<>> /\ Head(inbox[c]).type = "response" )
           => Head(inbox[c]).id = tid[p]

\* C34 (a response for a completed handle is harmless): when the reader
\* takes a response whose id has an entry in the pending table with a handle
\* that is already done, it ignores the frame: nothing changes but the frame
\* being consumed, and the reader is still running.
C34_LateResponseHarmless ==
  \A c \in Conns :
    ( /\ reader[c] = "running" /\ inbox[c] # <<>>
      /\ Head(inbox[c]).type \in {"response", "badresponse"}
      /\ pending[c][Head(inbox[c]).id] # NoProc
      /\ fut[pending[c][Head(inbox[c]).id]].st # "waiting" )
    => LET S1 == [St EXCEPT !.inbox[c] = Tail(@)]
           S2 == Dispatch(S1, c, Head(inbox[c]))
       IN S2.reader[c] = "running" /\ S2 = S1

\* C35 (no leaked transport): with the Client open, at most one Connection
\* has an open transport, and a Connection the Client has replaced has none.
C35_NoLeakedTransport ==
  pc[Main] = "up" =>
    /\ Cardinality({c \in Conns : transport[c] = "open"}) <= 1
    /\ \A c \in Conns : c # conn => transport[c] # "open"

\* The consumer waits on the empty event queue of connection c, which is
\* lost (the reader saw the end of the stream) or closed.
WaitsOnDead(c) ==
  /\ ~auto_reconnect
  /\ pc[Consumer] = "ev_blocked" /\ tconn[Consumer] = c
  /\ events[c] = <<>>
  /\ closed[c] \/ reader[c] = "lost"

\* C36 (the event iterator observes end-of-stream): without auto-reconnect,
\* once the consumer of Client.events() waits on the empty queue of a
\* connection that is lost or closed, the iteration eventually returns or
\* raises.
C36_IteratorEnds ==
  \A c \in Conns :
    WaitsOnDead(c) ~> pc[Consumer] \in {"ev_end", "ev_raised"}

\* C37 (close is final): once Client.close() has returned and no operation
\* is in progress, an operation called later sends no request and does not
\* enter the reconnect cycle that opens a new transport, with auto-reconnect
\* enabled too.
C37_CloseIsFinal ==
  \A p \in Tasks :
    ( /\ pc[Main] = "closed" /\ script[p] # <<>>
      /\ \A q \in Tasks : pc[q] = "idle"
      /\ pc[Consumer] \in {"ev_idle", "ev_end", "ev_raised"} )
    => LET S2 == StartOp(St, p)
       IN /\ S2.pc[p] \notin {"sleep", "open"}
          /\ S2.srvReq = srvReq /\ S2.transport = transport
          /\ S2.nconns = nconns

\* The backoff loop has given up: an operation ended with the terminal
\* error, or the loop inside Client.events() did.
GaveUp ==
  /\ max_reconnect_attempts > 0
  /\ \E q \in Procs : outcome[q] = "GiveUp" \/ lastErr[q] = "GiveUp"

\* C38 (give-up is sticky): once the backoff loop has given up, with the
\* Client open and its connection down, an operation called by an idle
\* caller ends at once with the terminal connection error: no sleep, no
\* Connection created, no transport opened, nothing sent.
C38_GiveUpSticky ==
  \A p \in Tasks :
    ( /\ GaveUp /\ pc[Main] = "up"
      /\ pc[p] = "idle" /\ ~is_connected(St, conn) )
    => LET S2 == BeginRequest([St EXCEPT !.op[p] = Ping], p)
       IN /\ S2.pc[p] = "idle" /\ S2.outcome[p] = "GiveUp"
          /\ S2.nconns = nconns /\ S2.transport = transport
          /\ S2.srvReq = srvReq

\* C39 (watch parameters are held only for an active subscription): while
\* no watch_all() is in progress and no server has ever accepted a watch-all
\* subscription of this Client, so that no watch_all() has completed
\* successfully, the stored watch parameters are empty: a watch_all() that
\* failed has left them as they were.
C39_WatchParamsOnlyIfActive ==
  ( /\ pc[Main] = "up"
    /\ \A p \in Tasks : op[p].name # "WATCH_ALL"
    /\ \A c \in Conns : srvWatch[c] = NoParams )
  => watch_params = NoParams

\* C40 (unwatch affects only its own subscription): while the watch-all
\* subscription is active, calling unwatch() with the id of another
\* subscription leaves the stored watch-all parameters unchanged; and while the server of the current connection still holds the
\* watch-all subscription and no unwatch() of it is in progress (none has
\* succeeded), the parameters are still stored.
C40_UnwatchOwnSubscription ==
  pc[Main] = "up" =>
    /\ \A p \in Tasks :
         ( /\ is_connected(St, conn) /\ srvWatch[conn] = WatchAll.params
           /\ pc[p] = "idle" /\ script[p] # <<>>
           /\ Head(script[p]).name = "UNWATCH"
           /\ Head(script[p]).params # Unwatch.params )
         => StartOp(St, p).watch_params = watch_params
    /\ ( /\ is_connected(St, conn)
         /\ srvWatch[conn] = WatchAll.params
         /\ \A p \in Tasks : op[p] # Unwatch )
       => watch_params = WatchAll.params

\* C10 (protocol errors are fatal): once the reader has ended on a protocol
\* error, is_connected is false and no request is registered on the
\* connection any more.
C10_ProtocolErrorFatal ==
  \A c \in Conns :
    reader[c] = "proto" => ~is_connected(St, c) /\ Owners(St, c) = {}
====
